---- MODULE Spec2Model ----
(***************************************************************************)
(* OBJ building generators (single-level and multi-level) of CG_2.         *)
(*                                                                         *)
(* Numbers.  Lengths (heights, radii, elevations) are kept in hundredths,  *)
(* so that the default top radius 0.8 is the integer 80, and an argument   *)
(* token v stands for the decimal string of v/100 ("3" is 300, "0.05" is   *)
(* 5).  NaN is a value of its own, with JavaScript's comparison rules      *)
(* (every comparison with NaN is false, NaN === NaN is false, NaN + x is   *)
(* NaN).  Sums are exact, with one exception: Tiny stands for a positive   *)
(* double (such as 1e-20) below half the spacing of the doubles around any *)
(* other positive length, so that x + Tiny is x again.                     *)
(*                                                                         *)
(* Vertices.  The sample of a ring of radius r at elevation y and angle    *)
(* i * (2*pi/numSides) is the record [a |-> i, y |-> y, r |-> r], that is  *)
(* the point (cos(angle)*r, y, sin(angle)*r); the literal center vertices  *)
(* [0, y, 0] are the records with a = 0 and r = 0.                         *)
(***************************************************************************)
EXTENDS Integers, Sequences, FiniteSets, TLC

\* ---------------------------------------------------------------- bounds
MaxHeight == 2
MaxRadius == 2
MaxLevels == 2
MaxModelSides == 5
MaxCoord == 1

\* ------------------------------------------------------ program constants
MinSides == 3
MaxSides == 36
DefaultSides == 8
DefaultHeight == 600
DefaultBaseRadius == 100
DefaultTopRadius == 80
DefaultLevels == 0

\* ------------------------------------------------- JavaScript value model
NaN == -100000
Undefined == -100001
TextTok == -100002
EmptyTok == -100003

JsLt(a, b) == a # NaN /\ b # NaN /\ a < b
JsLe(a, b) == a # NaN /\ b # NaN /\ a <= b
JsGt(a, b) == a # NaN /\ b # NaN /\ a > b
JsStrictEq(a, b) == a # NaN /\ b # NaN /\ a = b
\* a positive double that every other positive length absorbs
Tiny == 1
\* the double nearest to a + b
JsAdd(a, b) ==
    IF a = NaN \/ b = NaN THEN NaN
    ELSE IF b = Tiny /\ a > Tiny THEN a
    ELSE IF a = Tiny /\ b > Tiny THEN b
    ELSE a + b

\* args[k] of a JavaScript array (0-based): undefined past the end
ArgAt(a, k) == IF k + 1 <= Len(a) THEN a[k + 1] ELSE Undefined
\* a string is truthy unless it is empty; undefined is falsy
Truthy(tok) == tok # Undefined /\ tok # EmptyTok
\* parseInt keeps the integer part of the decimal string (truncation towards 0)
parseInt(tok) ==
    IF tok = TextTok THEN NaN
    ELSE IF tok >= 0 THEN tok \div 100 ELSE 0 - ((0 - tok) \div 100)
parseFloat(tok) == IF tok = TextTok THEN NaN ELSE tok

\* number of iterations of  for (let i = 0; i < n; i++)
LoopCount(n) == IF JsGt(n, 0) THEN n ELSE 0

\* the object literal generateData starts from: three empty attribute arrays
EmptyArrays ==
    [a_position |-> [numComponents |-> 2, data |-> <<>>],
     a_color    |-> [numComponents |-> 4, data |-> <<>>],
     indices    |-> [numComponents |-> 3, data |-> <<>>]]

VARIABLES script, args, pc, exitCode,
          numSides, height, baseRadius, topRadius, numLevels, levels,
          rings, verts, facesBase, facesTop, facesSides,
          norms, baseNormalIdx, topNormalIdx, sideNormalIdx,
          fileLines, writes, messages, prev, arrays

vars == <<script, args, pc, exitCode,
          numSides, height, baseRadius, topRadius, numLevels, levels,
          rings, verts, facesBase, facesTop, facesSides,
          norms, baseNormalIdx, topNormalIdx, sideNormalIdx,
          fileLines, writes, messages, prev, arrays>>

\* ------------------------------------------------------------- getInputs
LevelArg(a, i, k, dflt) ==
    IF Truthy(ArgAt(a, 5 + k + i * 3)) THEN parseFloat(ArgAt(a, 5 + k + i * 3)) ELSE dflt

\* mutant: zero is accepted
NonPositiveStrict(h, b, t) == JsLt(h, 0) \/ JsLt(b, 0) \/ JsLt(t, 0)

NonPositive(h, b, t) == JsLe(h, 0) \/ JsLe(b, 0) \/ JsLe(t, 0)

getInputs(a) ==
    LET n  == IF Truthy(ArgAt(a, 0)) THEN parseInt(ArgAt(a, 0)) ELSE DefaultSides
        h  == IF Truthy(ArgAt(a, 1)) THEN parseFloat(ArgAt(a, 1)) ELSE DefaultHeight
        b  == IF Truthy(ArgAt(a, 2)) THEN parseFloat(ArgAt(a, 2)) ELSE DefaultBaseRadius
        t  == IF Truthy(ArgAt(a, 3)) THEN parseFloat(ArgAt(a, 3)) ELSE DefaultTopRadius
        nl == IF Truthy(ArgAt(a, 4)) THEN parseInt(ArgAt(a, 4)) ELSE DefaultLevels
        lv(i) == [height     |-> LevelArg(a, i, 0, h),
                  baseRadius |-> LevelArg(a, i, 1, b),
                  topRadius  |-> LevelArg(a, i, 2, t)]
        bad(i) == NonPositive(lv(i).height, lv(i).baseRadius, lv(i).topRadius)
        base == [height |-> h, baseRadius |-> b, topRadius |-> t]
        exit ==
            \/ JsLt(n, MinSides) \/ JsGt(n, MaxSides)
            \/ NonPositive(h, b, t)
            \/ /\ JsGt(nl, 0)
               /\ \/ Len(a) > 5 + nl * 3
                  \/ \E i \in 0..(nl - 1) : bad(i)
        error ==
            IF JsLt(n, MinSides) \/ JsGt(n, MaxSides) THEN "Invalid number of sides"
            ELSE IF NonPositive(h, b, t) THEN "Height and radius must be positive values"
            ELSE IF JsGt(nl, 0) /\ Len(a) > 5 + nl * 3
                 THEN "Too many arguments for the specified number of levels"
            ELSE IF exit THEN "Height and radius for levels must be positive values"
            ELSE ""
    IN  [exit |-> exit, error |-> error, numSides |-> n, height |-> h, baseRadius |-> b,
         topRadius |-> t, numLevels |-> nl,
         levels |-> <<base>> \o [i \in 1..LoopCount(nl) |-> lv(i - 1)]]

\* ------------------------------------------------------------ buildRings
\* mutant: no ring is ever taken for a duplicate
isUniqueRingAlways(rs, y, r) == TRUE

\* mutant: only the most recent ring is compared
isUniqueRingLast(rs, y, r) ==
    ~ (Len(rs) > 0 /\ JsStrictEq(rs[Len(rs)].y, y) /\ JsStrictEq(rs[Len(rs)].r, r))

isUniqueRing(rs, y, r) ==
    ~ \E k \in 1..Len(rs) : JsStrictEq(rs[k].y, y) /\ JsStrictEq(rs[k].r, r)

\* mutant: the elevation is advanced before the lower ring is emitted
RingStepEarlyAdvance(st, level) ==
    LET y2    == JsAdd(st.currentY, level.height)
        lower == IF isUniqueRing(st.rings, y2, level.baseRadius)
                 THEN Append(st.rings, [y |-> y2, r |-> level.baseRadius])
                 ELSE st.rings
        upper == IF ~ \E k \in 1..Len(lower) :
                        JsStrictEq(lower[k].y, y2) /\ JsStrictEq(lower[k].r, level.topRadius)
                 THEN Append(lower, [y |-> y2, r |-> level.topRadius])
                 ELSE lower
    IN  [rings |-> upper, currentY |-> y2]

\* one iteration of the loop over the levels: rings and currentY after it
RingStep(st, level) ==
    LET lower == IF isUniqueRing(st.rings, st.currentY, level.baseRadius)
                 THEN Append(st.rings, [y |-> st.currentY, r |-> level.baseRadius])
                 ELSE st.rings
        y2    == JsAdd(st.currentY, level.height)
        upper == IF ~ \E k \in 1..Len(lower) :
                        JsStrictEq(lower[k].y, y2) /\ JsStrictEq(lower[k].r, level.topRadius)
                 THEN Append(lower, [y |-> y2, r |-> level.topRadius])
                 ELSE lower
    IN  [rings |-> upper, currentY |-> y2]

RECURSIVE RingLoop(_, _)
RingLoop(ls, n) ==
    IF n = 0 THEN [rings |-> <<>>, currentY |-> 0]
    ELSE RingStep(RingLoop(ls, n - 1), ls[n])

buildRings(ls) == RingLoop(ls, Len(ls)).rings

\* -------------------------------------------------------------- vertices
\* mutant: the angular samples are counted from 1
RingSamplesFromOne(ring, n) == [i \in 1..LoopCount(n) |-> [a |-> i, y |-> ring.y, r |-> ring.r]]

RingSamples(ring, n) == [i \in 1..LoopCount(n) |-> [a |-> i - 1, y |-> ring.y, r |-> ring.r]]

RECURSIVE RingVertices(_, _, _)
RingVertices(rs, k, n) ==
    IF k = 0 THEN <<>> ELSE RingVertices(rs, k - 1, n) \o RingSamples(rs[k], n)

\* mutant: the total height is read from the second ring
verticesSecondRingHeight(n, ls) ==
    LET rs == buildRings(ls)
        h  == rs[2].y
    IN  [vertices |-> << [a |-> 0, y |-> 0, r |-> 0], [a |-> 0, y |-> h, r |-> 0] >>
                      \o RingVertices(rs, Len(rs), n),
         rings |-> rs]

vertices(n, ls) ==
    LET rs == buildRings(ls)
        h  == rs[Len(rs)].y
    IN  [vertices |-> << [a |-> 0, y |-> 0, r |-> 0], [a |-> 0, y |-> h, r |-> 0] >>
                      \o RingVertices(rs, Len(rs), n),
         rings |-> rs]

\* ----------------------------------------------------------------- faces
\* 1-based index of sample i (0-based) of ring k (0-based); baseStart is 3
RingIdx(n, k, i) == 3 + k * n + i

RECURSIVE SideBandNoWrap(_, _, _)
\* mutant: the next sample is i + 1, without the wrap to sample 0
SideBandNoWrap(n, j, i) ==
    IF i = 0 THEN <<>>
    ELSE LET c  == i - 1
             baseCurrent == RingIdx(n, j, c)
             baseNext    == RingIdx(n, j, c + 1)
             topCurrent  == RingIdx(n, j + 1, c)
             topNext     == RingIdx(n, j + 1, c + 1)
         IN  SideBandNoWrap(n, j, i - 1)
                 \o << <<baseCurrent, baseNext, topNext>>,
                       <<baseCurrent, topNext, topCurrent>> >>

RECURSIVE SideBandOneTriangle(_, _, _)
\* mutant: the second triangle of each quad is not emitted
SideBandOneTriangle(n, j, i) ==
    IF i = 0 THEN <<>>
    ELSE LET c  == i - 1
             baseCurrent == RingIdx(n, j, c)
             baseNext    == RingIdx(n, j, (c + 1) % n)
             topNext     == RingIdx(n, j + 1, (c + 1) % n)
         IN  Append(SideBandOneTriangle(n, j, i - 1), <<baseCurrent, baseNext, topNext>>)

RECURSIVE SideBand(_, _, _)
\* the triangles pushed for the ring pair (j, j+1) by the iterations 0 .. i-1
SideBand(n, j, i) ==
    IF i = 0 THEN <<>>
    ELSE LET c  == i - 1
             baseCurrent == RingIdx(n, j, c)
             baseNext    == RingIdx(n, j, (c + 1) % n)
             topCurrent  == RingIdx(n, j + 1, c)
             topNext     == RingIdx(n, j + 1, (c + 1) % n)
         IN  SideBand(n, j, i - 1)
                 \o << <<baseCurrent, baseNext, topNext>>,
                       <<baseCurrent, topNext, topCurrent>> >>

RECURSIVE SideFaces(_, _)
\* facesSides after the ring pairs 0 .. j-1
SideFaces(n, j) == IF j = 0 THEN <<>> ELSE SideFaces(n, j - 1) \o SideBand(n, j - 1, n)

\* mutant: the top cap is built on the second ring, as for a single level
facesTopRingOne(n, rs) ==
    LET numRings   == Len(rs)
        bottomRing == 0
        topRing    == 1
        cnt        == LoopCount(n)
    IN  [facesBase  |-> [i \in 1..cnt |->
                            <<1, RingIdx(n, bottomRing, i % n), RingIdx(n, bottomRing, i - 1)>>],
         facesTop   |-> [i \in 1..cnt |->
                            <<2, RingIdx(n, topRing, i - 1), RingIdx(n, topRing, i % n)>>],
         facesSides |-> IF cnt = 0 THEN <<>> ELSE SideFaces(n, numRings - 1)]

\* mutant: the base cap is wound like the top cap
facesBaseUnreversed(n, rs) ==
    LET numRings   == Len(rs)
        bottomRing == 0
        topRing    == numRings - 1
        cnt        == LoopCount(n)
    IN  [facesBase  |-> [i \in 1..cnt |->
                            <<1, RingIdx(n, bottomRing, i - 1), RingIdx(n, bottomRing, i % n)>>],
         facesTop   |-> [i \in 1..cnt |->
                            <<2, RingIdx(n, topRing, i - 1), RingIdx(n, topRing, i % n)>>],
         facesSides |-> IF cnt = 0 THEN <<>> ELSE SideFaces(n, numRings - 1)]

faces(n, rs) ==
    LET numRings   == Len(rs)
        bottomRing == 0
        topRing    == numRings - 1
        cnt        == LoopCount(n)
    IN  [facesBase  |-> [i \in 1..cnt |->
                            <<1, RingIdx(n, bottomRing, i % n), RingIdx(n, bottomRing, i - 1)>>],
         facesTop   |-> [i \in 1..cnt |->
                            <<2, RingIdx(n, topRing, i - 1), RingIdx(n, topRing, i % n)>>],
         facesSides |-> IF cnt = 0 THEN <<>> ELSE SideFaces(n, numRings - 1)]

\* --------------------------------------------------------------- normals
ConstNormal(x, y, z) == [const |-> <<x, y, z>>, tri |-> <<>>, edges |-> "none"]
\* the normalized cross product of two edge vectors of the points v1, v2, v3,
\* kept unevaluated; e names the edges: "v12,v13" is cross(v2 - v1, v3 - v1)
CrossNormal(v1, v2, v3, e) == [const |-> <<>>, tri |-> <<v1, v2, v3>>, edges |-> e]

RECURSIVE BandNormalsTopCurrent(_, _, _, _)
\* mutant: the third point is the upper current sample (the second triangle's)
BandNormalsTopCurrent(n, vs, j, i) ==
    IF i = 0 THEN <<>>
    ELSE LET c  == i - 1
             baseCurrent == RingIdx(n, j, c)
             baseNext    == RingIdx(n, j, (c + 1) % n)
             topCurrent  == RingIdx(n, j + 1, c)
         IN  Append(BandNormalsTopCurrent(n, vs, j, i - 1),
                    CrossNormal(vs[baseCurrent], vs[baseNext], vs[topCurrent], "v12,v13"))

RECURSIVE BandNormals(_, _, _, _)
\* the lateral normals pushed for the ring pair (j, j+1) by the iterations 0 .. i-1
BandNormals(n, vs, j, i) ==
    IF i = 0 THEN <<>>
    ELSE LET c  == i - 1
             baseCurrent == RingIdx(n, j, c)
             baseNext    == RingIdx(n, j, (c + 1) % n)
             topNext     == RingIdx(n, j + 1, (c + 1) % n)
         IN  Append(BandNormals(n, vs, j, i - 1),
                    CrossNormal(vs[baseCurrent], vs[baseNext], vs[topNext], "v12,v13"))

RECURSIVE SideNormals(_, _, _)
\* the lateral normals after the ring pairs 0 .. j-1
SideNormals(n, vs, j) ==
    IF j = 0 THEN <<>> ELSE SideNormals(n, vs, j - 1) \o BandNormals(n, vs, j - 1, n)

\* mutant: the side normal index is taken before the normal is pushed
normalsIdxBeforePush(n, vs, rs) ==
    LET numRings == Len(rs)
        side == IF LoopCount(n) = 0 THEN <<>> ELSE SideNormals(n, vs, numRings - 1)
    IN  [normals       |-> <<ConstNormal(0, -1, 0), ConstNormal(0, 1, 0)>> \o side,
         baseNormalIdx |-> 1,
         topNormalIdx  |-> 2,
         sideNormalIdx |-> [k \in 1..Len(side) |-> 1 + k]]

normals(n, vs, rs) ==
    LET numRings == Len(rs)
        side == IF LoopCount(n) = 0 THEN <<>> ELSE SideNormals(n, vs, numRings - 1)
    IN  [normals       |-> <<ConstNormal(0, -1, 0), ConstNormal(0, 1, 0)>> \o side,
         baseNormalIdx |-> 1,
         topNormalIdx  |-> 2,
         sideNormalIdx |-> [k \in 1..Len(side) |-> 2 + k]]

\* ------------------------------------------------------------- createOBJ
\* mutant: the array is read one position too far
ElemAtNext(s, k) == IF k + 2 <= Len(s) THEN s[k + 2] ELSE Undefined

\* s[k] of a JavaScript array (0-based): undefined past the end
ElemAt(s, k) == IF k + 1 <= Len(s) THEN s[k + 1] ELSE Undefined
Line(t, d) == [t |-> t, d |-> d]
FaceLine(face, nIdx) == Line("f", <<<<face[1], nIdx>>, <<face[2], nIdx>>, <<face[3], nIdx>>>>)

createOBJ(fileName, vs, ns, fb, ft, fs, bIdx, tIdx, sIdx) ==
    <<Line("#", <<"OBJ file", fileName>>)>>
    \o <<Line("#", <<Len(vs), "vertices">>)>>
    \o [k \in 1..Len(vs) |-> Line("v", vs[k])]
    \o <<Line("#", <<Len(ns), "normals">>)>>
    \o [k \in 1..Len(ns) |-> Line("vn", ns[k])]
    \o <<Line("#", <<Len(fb) + Len(ft) + Len(fs), "faces">>)>>
    \o [k \in 1..Len(fb) |-> FaceLine(fb[k], bIdx)]
    \o [k \in 1..Len(ft) |-> FaceLine(ft[k], tIdx)]
    \o [k \in 1..Len(fs) |-> FaceLine(fs[k], ElemAt(sIdx, (k - 1) \div 2))]

\* ------------------------------------------ single-level generator script
getInputsSingle(a) ==
    LET n == IF Truthy(ArgAt(a, 0)) THEN parseInt(ArgAt(a, 0)) ELSE DefaultSides
        h == IF Truthy(ArgAt(a, 1)) THEN parseFloat(ArgAt(a, 1)) ELSE DefaultHeight
        b == IF Truthy(ArgAt(a, 2)) THEN parseFloat(ArgAt(a, 2)) ELSE DefaultBaseRadius
        t == IF Truthy(ArgAt(a, 3)) THEN parseFloat(ArgAt(a, 3)) ELSE DefaultTopRadius
    IN  [exit |-> JsLt(n, MinSides) \/ JsGt(n, MaxSides) \/ NonPositive(h, b, t),
         error |-> IF JsLt(n, MinSides) \/ JsGt(n, MaxSides) THEN "Invalid number of sides"
                   ELSE IF NonPositive(h, b, t) THEN "Height and radius must be positive values"
                   ELSE "",
         numSides |-> n, height |-> h, baseRadius |-> b, topRadius |-> t]

RECURSIVE verticesSingleLoop(_, _, _, _)
\* the vertices pushed by the iterations 0 .. i-1: base sample, then top sample
verticesSingleLoop(i, h, b, t) ==
    IF i = 0 THEN <<>>
    ELSE verticesSingleLoop(i - 1, h, b, t)
            \o << [a |-> i - 1, y |-> 0, r |-> b], [a |-> i - 1, y |-> h, r |-> t] >>

verticesSingle(n, h, b, t) ==
    << [a |-> 0, y |-> 0, r |-> 0], [a |-> 0, y |-> h, r |-> 0] >>
        \o verticesSingleLoop(LoopCount(n), h, b, t)

\* current and next index of the interleaved layout, from a start index
CurrentIdx(start, i) == start + 2 * i
\* mutant: the last sample does not wrap to the first
NextIdxNoWrap(start, i, n) == CurrentIdx(start, i) + 2

NextIdx(start, i, n) == IF i = n - 1 THEN start ELSE CurrentIdx(start, i) + 2

RECURSIVE facesSingleSides(_, _)
facesSingleSides(n, i) ==
    IF i = 0 THEN <<>>
    ELSE LET c == i - 1
             baseCurrent == CurrentIdx(3, c)
             baseNext    == NextIdx(3, c, n)
             topCurrent  == CurrentIdx(4, c)
             topNext     == NextIdx(4, c, n)
         IN  facesSingleSides(n, i - 1)
                 \o << <<baseCurrent, baseNext, topNext>>,
                       <<baseCurrent, topNext, topCurrent>> >>

facesSingle(n) ==
    LET cnt == LoopCount(n)
    IN  [facesBase  |-> [i \in 1..cnt |-> <<1, NextIdx(3, i - 1, n), CurrentIdx(3, i - 1)>>],
         facesTop   |-> [i \in 1..cnt |-> <<2, CurrentIdx(4, i - 1), NextIdx(4, i - 1, n)>>],
         facesSides |-> facesSingleSides(n, cnt)]

normalsSingle(n, vs) ==
    LET baseStart == 1
        topStart  == 2
        side == [i \in 1..LoopCount(n) |->
                    CrossNormal(vs[CurrentIdx(baseStart, i - 1)],
                                vs[NextIdx(baseStart, i - 1, n)],
                                vs[NextIdx(topStart, i - 1, n)], "v12,v23")]
    IN  [normals       |-> <<ConstNormal(0, -1, 0), ConstNormal(0, 1, 0)>> \o side,
         baseNormalIdx |-> 1,
         topNormalIdx  |-> 2,
         sideNormalIdx |-> [k \in 1..Len(side) |-> 2 + k]]

\* ----------------------------------------------------- exact coordinates
(***************************************************************************)
(* For 3, 4 and 6 sides the cosines and sines are exact multiples of a     *)
(* unit: with 4 sides both units are 1; with 3 and 6 sides the x unit is   *)
(* 1/2 and the z unit is sqrt(3)/2.  A point is the integer triple of its  *)
(* multiples (y has unit 1); a cross product of two such vectors is again  *)
(* an integer triple, with the positive units uy*uz, ux*uz and ux*uy, so   *)
(* signs and zero components are those of the real vector.                 *)
(***************************************************************************)
ExactSides == {3, 4, 6}
CosNum(n, i) ==
    CASE n = 4 -> <<1, 0, -1, 0>>[i + 1]
      [] n = 3 -> <<2, -1, -1>>[i + 1]
      [] n = 6 -> <<2, 1, -1, -2, -1, 1>>[i + 1]
SinNum(n, i) ==
    CASE n = 4 -> <<0, 1, 0, -1>>[i + 1]
      [] n = 3 -> <<0, 1, -1>>[i + 1]
      [] n = 6 -> <<0, 1, 1, 0, -1, -1>>[i + 1]
\* [cos(angle) * r, y, sin(angle) * r] of a vertex
Coord(v, n) == <<CosNum(n, v.a) * v.r, v.y, SinNum(n, v.a) * v.r>>

V3subtract(a, b) == <<a[1] - b[1], a[2] - b[2], a[3] - b[3]>>
V3cross(a, b) ==
    <<a[2] * b[3] - a[3] * b[2], a[3] * b[1] - a[1] * b[3], a[1] * b[2] - a[2] * b[1]>>

\* mutant: the operands of the cross product are swapped
SideNormalSingleSwapped(v1, v2, v3) == V3cross(V3subtract(v3, v2), V3subtract(v2, v1))

\* the vector the single-level normals() hands to V3.normalize: cross(v12, v23)
SideNormalSingle(v1, v2, v3) == V3cross(V3subtract(v2, v1), V3subtract(v3, v2))
\* the vector the multi-level normals() hands to V3.normalize: cross(v12, v13)
SideNormalMulti(v1, v2, v3) == V3cross(V3subtract(v2, v1), V3subtract(v3, v1))

\* the cross product that normals() hands to V3.normalize for a lateral normal
NormalVector(nrm, n) ==
    LET v1 == Coord(nrm.tri[1], n)
        v2 == Coord(nrm.tri[2], n)
        v3 == Coord(nrm.tri[3], n)
    IN  IF nrm.edges = "v12,v13" THEN SideNormalMulti(v1, v2, v3)
        ELSE SideNormalSingle(v1, v2, v3)

\* ------------------------------------------------------------------ Init
\* the argument string of the integer n
Tok(n) == 100 * n
SidesArgs == (MinSides - 1)..MaxModelSides \cup {MaxSides, MaxSides + 1}
Radii == 1..MaxRadius
\* the three arguments of a level of height 1
LevelArgs == {<<Tok(1), Tok(b), Tok(t)>> : b \in Radii, t \in Radii}
Flatten(ls, L) == [k \in 1..(3 * L) |-> ls[((k - 1) \div 3) + 1][((k - 1) % 3) + 1]]

\* everything after numSides: base level, numLevels, the additional levels
ProductTails ==
    UNION { { base \o <<Tok(L)>> \o Flatten(ls, L) : ls \in [1..L -> LevelArgs] } :
            <<base, L>> \in LevelArgs \X (0..MaxLevels) }
\* the two usage examples of the file header, and a minimal frustum
ExampleTails ==
    { <<40, 200, 100, 500, 300, 100, 120, 200, 90, 80, 100, 120, 180,
        20, 180, 120, 300, 5, 5>>,
      <<1000, 600, 550, 600, 900, 450, 400, 800, 300, 250, 700, 150, 100,
        1000, 5, 5, 100, 5, 100, 100, 100, 5>>,
      <<200, 100, 50>> }
\* every combination of radii with one number of sides; the examples (which
\* vary the heights) with every number of sides
DeepVectors == {<<Tok(MinSides + 1)>> \o t : t \in ProductTails}
WideVectors == {<<Tok(n)>> \o t : <<n, t>> \in SidesArgs \X ExampleTails}
FullVectors == DeepVectors \cup WideVectors
\* all lengths 1
PlainVectors == {v \in DeepVectors : \A k \in 1..Len(v) : k \notin {1, 5} => v[k] = Tok(1)}
\* the examples with their last arguments missing
TruncatedVectors ==
    UNION { {SubSeq(<<Tok(MinSides + 1)>> \o t, 1, k) : k \in 0..Len(t)} : t \in ExampleTails }
\* "0", "-1", "2.5", "abc", ""
OddTokens == {0, -100, 250, TextTok, EmptyTok}
DefectVectors ==
    UNION { {[v EXCEPT ![p] = tok] : <<p, tok>> \in (1..Len(v)) \X OddTokens} : v \in PlainVectors }
ExtraVectors == {v \o <<Tok(1)>> : v \in PlainVectors}
\* additional levels whose height the running elevation absorbs
AbsorbVectors ==
    { <<Tok(MinSides + 1), 100, 100, 200, 100, Tiny, 300, 200>>,
      <<Tok(MinSides + 1), 100, 100, 200, 100, Tiny, 200, 200>>,
      <<Tok(MinSides), 100, 100, 200, 200, Tiny, 200, 500, 100, 500, 100>>,
      <<Tok(MinSides), 100, 100, 200, 200, 100, 200, 100, Tiny, 300, 100>> }
ArgVectors ==
    FullVectors \cup TruncatedVectors \cup DefectVectors \cup ExtraVectors \cup AbsorbVectors
\* the single-level script reads four arguments
SingleVectors == {SubSeq(v, 1, IF Len(v) < 4 THEN Len(v) ELSE 4) : v \in ArgVectors}

Init ==
    /\ \/ script = "multi" /\ args \in ArgVectors
       \/ script = "single" /\ args \in SingleVectors
    /\ pc = "getInputs"
    /\ exitCode = 0
    /\ numSides = Undefined /\ height = Undefined /\ baseRadius = Undefined
    /\ topRadius = Undefined /\ numLevels = Undefined
    /\ levels = <<>> /\ rings = <<>> /\ verts = <<>>
    /\ facesBase = <<>> /\ facesTop = <<>> /\ facesSides = <<>>
    /\ norms = <<>> /\ baseNormalIdx = Undefined /\ topNormalIdx = Undefined
    /\ sideNormalIdx = <<>>
    /\ fileLines = <<>> /\ writes = <<>>
    /\ messages = <<>> /\ prev = <<>>
    /\ arrays = EmptyArrays

\* --------------------------------------------------------------- actions
GetInputs ==
    /\ pc = "getInputs" /\ script = "multi"
    /\ LET in == getInputs(args) IN
        IF in.exit
        THEN /\ pc' = "exit" /\ exitCode' = 1
             /\ messages' = Append(messages, [stream |-> "stderr", text |-> in.error])
             /\ UNCHANGED <<numSides, height, baseRadius, topRadius, numLevels, levels>>
        ELSE /\ pc' = "vertices" /\ exitCode' = exitCode
             /\ messages' = messages
             /\ numSides' = in.numSides /\ height' = in.height
             /\ baseRadius' = in.baseRadius /\ topRadius' = in.topRadius
             /\ numLevels' = in.numLevels /\ levels' = in.levels
    /\ UNCHANGED <<script, args, rings, verts, facesBase, facesTop, facesSides,
                   norms, baseNormalIdx, topNormalIdx, sideNormalIdx, fileLines, writes,
                   prev, arrays>>

Vertices ==
    /\ pc = "vertices" /\ script = "multi"
    /\ LET out == vertices(numSides, levels) IN
        /\ verts' = out.vertices
        /\ rings' = out.rings
    /\ pc' = "faces"
    /\ UNCHANGED <<script, args, exitCode, numSides, height, baseRadius, topRadius,
                   numLevels, levels, facesBase, facesTop, facesSides,
                   norms, baseNormalIdx, topNormalIdx, sideNormalIdx, fileLines, writes, messages, prev, arrays>>

Faces ==
    /\ pc = "faces" /\ script = "multi"
    /\ LET out == faces(numSides, rings) IN
        /\ facesBase' = out.facesBase
        /\ facesTop' = out.facesTop
        /\ facesSides' = out.facesSides
    /\ pc' = "normals"
    /\ UNCHANGED <<script, args, exitCode, numSides, height, baseRadius, topRadius,
                   numLevels, levels, rings, verts,
                   norms, baseNormalIdx, topNormalIdx, sideNormalIdx, fileLines, writes, messages, prev, arrays>>

Normals ==
    /\ pc = "normals" /\ script = "multi"
    /\ LET out == normals(numSides, verts, rings) IN
        /\ norms' = out.normals
        /\ baseNormalIdx' = out.baseNormalIdx
        /\ topNormalIdx' = out.topNormalIdx
        /\ sideNormalIdx' = out.sideNormalIdx
    /\ pc' = "createOBJ"
    /\ UNCHANGED <<script, args, exitCode, numSides, height, baseRadius, topRadius,
                   numLevels, levels, rings, verts, facesBase, facesTop, facesSides,
                   fileLines, writes, messages, prev, arrays>>

\* mutant: the header line is written to the file before the rest is built
CreateOBJHeaderFirst ==
    /\ pc = "createOBJ" /\ script = "multi"
    /\ LET fileName == <<"building", numSides, height, baseRadius, topRadius, numLevels, "lvl.obj">>
           lines == createOBJ(fileName, verts, norms, facesBase, facesTop, facesSides,
                              baseNormalIdx, topNormalIdx, sideNormalIdx)
       IN  /\ fileLines' = lines
           /\ writes' = writes \o <<[name |-> fileName, lines |-> SubSeq(lines, 1, 1)],
                                    [name |-> fileName, lines |-> lines]>>
           /\ messages' = Append(messages, [stream |-> "stdout",
                                             text |-> <<"OBJ file", fileName, "generated">>])
    /\ pc' = "done"
    /\ UNCHANGED <<script, args, exitCode, numSides, height, baseRadius, topRadius,
                   numLevels, levels, rings, verts, facesBase, facesTop, facesSides,
                   norms, baseNormalIdx, topNormalIdx, sideNormalIdx, prev, arrays>>

CreateOBJ ==
    /\ pc = "createOBJ" /\ script = "multi"
    /\ LET fileName == <<"building", numSides, height, baseRadius, topRadius, numLevels, "lvl.obj">>
           lines == createOBJ(fileName, verts, norms, facesBase, facesTop, facesSides,
                              baseNormalIdx, topNormalIdx, sideNormalIdx)
       IN  /\ fileLines' = lines
           /\ writes' = Append(writes, [name |-> fileName, lines |-> lines])
           /\ messages' = Append(messages, [stream |-> "stdout",
                                             text |-> <<"OBJ file", fileName, "generated">>])
    /\ pc' = "done"
    /\ UNCHANGED <<script, args, exitCode, numSides, height, baseRadius, topRadius,
                   numLevels, levels, rings, verts, facesBase, facesTop, facesSides,
                   norms, baseNormalIdx, topNormalIdx, sideNormalIdx, prev, arrays>>

GetInputsSingle ==
    /\ pc = "getInputs" /\ script = "single"
    /\ LET in == getInputsSingle(args) IN
        IF in.exit
        THEN /\ pc' = "exit" /\ exitCode' = 1
             /\ messages' = Append(messages, [stream |-> "stderr", text |-> in.error])
             /\ UNCHANGED <<numSides, height, baseRadius, topRadius>>
        ELSE /\ pc' = "vertices" /\ exitCode' = exitCode
             /\ messages' = messages
             /\ numSides' = in.numSides /\ height' = in.height
             /\ baseRadius' = in.baseRadius /\ topRadius' = in.topRadius
    /\ UNCHANGED <<script, args, numLevels, levels, rings, verts, facesBase, facesTop,
                   facesSides, norms, baseNormalIdx, topNormalIdx, sideNormalIdx,
                   fileLines, writes, prev, arrays>>

VerticesSingle ==
    /\ pc = "vertices" /\ script = "single"
    /\ verts' = verticesSingle(numSides, height, baseRadius, topRadius)
    /\ pc' = "faces"
    /\ UNCHANGED <<script, args, exitCode, numSides, height, baseRadius, topRadius,
                   numLevels, levels, rings, facesBase, facesTop, facesSides,
                   norms, baseNormalIdx, topNormalIdx, sideNormalIdx, fileLines, writes, messages, prev, arrays>>

FacesSingle ==
    /\ pc = "faces" /\ script = "single"
    /\ LET out == facesSingle(numSides) IN
        /\ facesBase' = out.facesBase
        /\ facesTop' = out.facesTop
        /\ facesSides' = out.facesSides
    /\ pc' = "normals"
    /\ UNCHANGED <<script, args, exitCode, numSides, height, baseRadius, topRadius,
                   numLevels, levels, rings, verts,
                   norms, baseNormalIdx, topNormalIdx, sideNormalIdx, fileLines, writes, messages, prev, arrays>>

NormalsSingle ==
    /\ pc = "normals" /\ script = "single"
    /\ LET out == normalsSingle(numSides, verts) IN
        /\ norms' = out.normals
        /\ baseNormalIdx' = out.baseNormalIdx
        /\ topNormalIdx' = out.topNormalIdx
        /\ sideNormalIdx' = out.sideNormalIdx
    /\ pc' = "createOBJ"
    /\ UNCHANGED <<script, args, exitCode, numSides, height, baseRadius, topRadius,
                   numLevels, levels, rings, verts, facesBase, facesTop, facesSides,
                   fileLines, writes, messages, prev, arrays>>

CreateOBJSingle ==
    /\ pc = "createOBJ" /\ script = "single"
    /\ LET fileName == <<"building", numSides, height, baseRadius, topRadius, ".obj">>
           lines == createOBJ(fileName, verts, norms, facesBase, facesTop, facesSides,
                              baseNormalIdx, topNormalIdx, sideNormalIdx)
       IN  /\ fileLines' = lines
           /\ writes' = Append(writes, [name |-> fileName, lines |-> lines])
           /\ messages' = Append(messages, [stream |-> "stdout",
                                             text |-> <<"OBJ file", fileName, "generated">>])
    /\ pc' = "done"
    /\ UNCHANGED <<script, args, exitCode, numSides, height, baseRadius, topRadius,
                   numLevels, levels, rings, verts, facesBase, facesTop, facesSides,
                   norms, baseNormalIdx, topNormalIdx, sideNormalIdx, prev, arrays>>

Next ==
    \/ GetInputs \/ Vertices \/ Faces \/ Normals \/ CreateOBJ
    \/ GetInputsSingle \/ VerticesSingle \/ FacesSingle \/ NormalsSingle \/ CreateOBJSingle

Spec == Init /\ [][Next]_vars

\* ------------------------------------------- the script invoked a second time
\* what a finished run leaves behind: exit status, message streams, file
\* writes, and the sequences handed to createOBJ
Outcome ==
    [status |-> exitCode, messages |-> messages, writes |-> writes,
     vertices |-> verts, normals |-> norms,
     faces |-> <<facesBase, facesTop, facesSides>>,
     normalIdx |-> <<baseNormalIdx, topNormalIdx, sideNormalIdx>>]
Finished == pc \in {"done", "exit"}

\* a fresh process: main() starts again with nothing kept from the first run
FreshProcess ==
    /\ pc' = "getInputs" /\ exitCode' = 0
    /\ numSides' = Undefined /\ height' = Undefined /\ baseRadius' = Undefined
    /\ topRadius' = Undefined /\ numLevels' = Undefined
    /\ levels' = <<>> /\ rings' = <<>> /\ verts' = <<>>
    /\ facesBase' = <<>> /\ facesTop' = <<>> /\ facesSides' = <<>>
    /\ norms' = <<>> /\ baseNormalIdx' = Undefined /\ topNormalIdx' = Undefined
    /\ sideNormalIdx' = <<>>
    /\ fileLines' = <<>> /\ writes' = <<>> /\ messages' = <<>>
    /\ arrays' = arrays

\* mutant: the second invocation drops the last argument
RerunShorterArgs ==
    /\ Finished /\ prev = <<>> /\ script \in {"multi", "single"}
    /\ prev' = <<Outcome>>
    /\ args' = IF args = <<>> THEN <<Tok(MinSides)>> ELSE SubSeq(args, 1, Len(args) - 1)
    /\ FreshProcess
    /\ UNCHANGED script

\* the same script invoked again on the same command line
Rerun ==
    /\ Finished /\ prev = <<>> /\ script \in {"multi", "single"}
    /\ prev' = <<Outcome>>
    /\ FreshProcess
    /\ UNCHANGED <<script, args>>

InitTwoRuns == Init /\ (args \in DeepVectors => args \in PlainVectors)
NextTwoRuns == Next \/ Rerun
SpecTwoRuns == InitTwoRuns /\ [][NextTwoRuns]_vars

\* ------------------------------------- buildRings applied to any level list
\* heights of any sign, zero included
AnyLevels == {[height |-> Tok(h), baseRadius |-> Tok(b), topRadius |-> Tok(t)] :
                <<h, b, t>> \in ((0 - MaxHeight)..MaxHeight) \X (1..MaxRadius) \X (1..MaxRadius)}
AnyLevelLists == UNION {[1..L -> AnyLevels] : L \in 1..MaxLevels}

InitRings ==
    /\ script = "rings" /\ args = <<>> /\ pc = "buildRings" /\ exitCode = 0
    /\ levels \in AnyLevelLists
    /\ numSides = Undefined /\ height = Undefined /\ baseRadius = Undefined
    /\ topRadius = Undefined /\ numLevels = Undefined
    /\ rings = <<>> /\ verts = <<>>
    /\ facesBase = <<>> /\ facesTop = <<>> /\ facesSides = <<>>
    /\ norms = <<>> /\ baseNormalIdx = Undefined /\ topNormalIdx = Undefined
    /\ sideNormalIdx = <<>>
    /\ fileLines = <<>> /\ writes = <<>>
    /\ messages = <<>> /\ prev = <<>>
    /\ arrays = EmptyArrays

BuildRings ==
    /\ pc = "buildRings"
    /\ rings' = buildRings(levels)
    /\ pc' = "done"
    /\ UNCHANGED <<script, args, exitCode, numSides, height, baseRadius, topRadius,
                   numLevels, levels, verts, facesBase, facesTop, facesSides,
                   norms, baseNormalIdx, topNormalIdx, sideNormalIdx, fileLines, writes, messages, prev, arrays>>

NextRings == BuildRings

SpecRings == InitRings /\ [][NextRings]_vars

\* ------------------------- the two lateral-normal conventions on any triangle
Coords == (0 - MaxCoord)..MaxCoord
Points == Coords \X Coords \X Coords
FirstPoints == (0..MaxCoord) \X (0..MaxCoord) \X (0..MaxCoord)

InitCross ==
    /\ script = "cross" /\ pc = "cross" /\ exitCode = 0
    /\ args \in FirstPoints \X Points \X Points
    /\ numSides = Undefined /\ height = Undefined /\ baseRadius = Undefined
    /\ topRadius = Undefined /\ numLevels = Undefined
    /\ levels = <<>> /\ rings = <<>> /\ verts = <<>>
    /\ facesBase = <<>> /\ facesTop = <<>> /\ facesSides = <<>>
    /\ norms = <<>> /\ baseNormalIdx = Undefined /\ topNormalIdx = Undefined
    /\ sideNormalIdx = <<>>
    /\ fileLines = <<>> /\ writes = <<>>
    /\ messages = <<>> /\ prev = <<>>
    /\ arrays = EmptyArrays

\* both scripts' normal of the triangle (v1, v2, v3) = args
Cross ==
    /\ pc = "cross"
    /\ verts' = args
    /\ norms' = <<SideNormalSingle(args[1], args[2], args[3]),
                  SideNormalMulti(args[1], args[2], args[3])>>
    /\ pc' = "done"
    /\ UNCHANGED <<script, args, exitCode, numSides, height, baseRadius, topRadius,
                   numLevels, levels, rings, facesBase, facesTop, facesSides,
                   baseNormalIdx, topNormalIdx, sideNormalIdx, fileLines, writes,
                   messages, prev, arrays>>

NextCross == Cross

SpecCross == InitCross /\ [][NextCross]_vars

\* ------------------------------------- attribute arrays of the 2D face demo
\* a coordinate base + fn(angleStep * s) * radius, kept unevaluated; a plain
\* number is the term with fn = "none"
Term(base, fn, s, radius) == [base |-> base, fn |-> fn, s |-> s, radius |-> radius]
Plain(v) == Term(v, "none", 0, 0)
Push(arr, vals) == [arr EXCEPT !.data = @ \o vals]

\* mutant: the wrap to vertex 1 comes one side early
DataStepEarlyWrap(arrays_, s, sides, radius, centerX, centerY) ==
    [a_position |-> Push(arrays_.a_position,
                         <<Term(centerX, "cos", s, radius), Term(centerY, "sin", s, radius)>>),
     a_color    |-> Push(arrays_.a_color, <<100, 100, 100, 100>>),
     indices    |-> Push(arrays_.indices, <<0, s + 1, IF (s + 2) < sides THEN s + 2 ELSE 1>>)]

\* one iteration of the loop over the sides
DataStep(arrays_, s, sides, radius, centerX, centerY) ==
    [a_position |-> Push(arrays_.a_position,
                         <<Term(centerX, "cos", s, radius), Term(centerY, "sin", s, radius)>>),
     a_color    |-> Push(arrays_.a_color, <<100, 100, 100, 100>>),
     indices    |-> Push(arrays_.indices, <<0, s + 1, IF (s + 2) <= sides THEN s + 2 ELSE 1>>)]

RECURSIVE DataLoop(_, _, _, _, _)
\* the arrays after the iterations 0 .. n-1
DataLoop(n, sides, radius, centerX, centerY) ==
    IF n = 0
    THEN [EmptyArrays EXCEPT !.a_position = Push(@, <<Plain(centerX), Plain(centerY)>>),
                             !.a_color = Push(@, <<100, 100, 100, 100>>)]
    ELSE DataStep(DataLoop(n - 1, sides, radius, centerX, centerY),
                  n - 1, sides, radius, centerX, centerY)

generateData(sides, radius, centerX, centerY) ==
    DataLoop(LoopCount(sides), sides, radius, centerX, centerY)

generatePivotData(size) ==
    [a_position |-> [numComponents |-> 2,
                     data |-> <<Plain(size), Plain(0), Plain(0), Plain(size),
                                Plain(0 - size), Plain(0), Plain(0), Plain(0 - size)>>],
     a_color    |-> [numComponents |-> 4,
                     data |-> <<30, 30, 30, 100,  30, 30, 30, 100,
                                30, 30, 30, 100,  30, 30, 30, 100>>],
     indices    |-> [numComponents |-> 3, data |-> <<0, 1, 2,  2, 3, 0>>]]

generateMouthData ==
    [a_position |-> [numComponents |-> 2,
                     data |-> <<Plain(Tok(-45)), Plain(Tok(20)), Plain(Tok(-30)), Plain(Tok(40)),
                                Plain(Tok(-10)), Plain(Tok(35)),
                                Plain(Tok(0)), Plain(Tok(50)),
                                Plain(Tok(10)), Plain(Tok(35)), Plain(Tok(30)), Plain(Tok(40)),
                                Plain(Tok(45)), Plain(Tok(20))>>],
     a_color    |-> [numComponents |-> 4,
                     data |-> <<0, 0, 0, 100,  0, 0, 0, 100,  0, 0, 0, 100,
                                0, 0, 0, 100,  0, 0, 0, 100,  0, 0, 0, 100>>],
     indices    |-> [numComponents |-> 3,
                     data |-> <<0, 1, 2,  1, 2, 3,  2, 3, 4,  3, 4, 5,  4, 5, 6>>]]

\* the calls of generateFaceData and main, with other polygons besides
ShapeSides == 0..MaxModelSides \cup {10, 30}
ShapeRadii == {Tok(r) : r \in 1..MaxRadius} \cup {Tok(10), Tok(15), Tok(30), Tok(100), Tok(110)}
ShapeCenters == {<<Tok(0), Tok(0)>>, <<Tok(-35), Tok(-20)>>, <<Tok(35), Tok(-20)>>,
                 <<Tok(-60), Tok(5)>>, <<Tok(60), Tok(5)>>}

InitShapes ==
    /\ \/ /\ script = "generateData"
          /\ args \in {<<n, r, c[1], c[2]>> : <<n, r, c>> \in ShapeSides \X ShapeRadii \X ShapeCenters}
       \/ script = "generatePivotData" /\ args \in {<<r>> : r \in ShapeRadii}
       \/ script = "generateMouthData" /\ args = <<>>
    /\ pc = "generate" /\ exitCode = 0
    /\ numSides = Undefined /\ height = Undefined /\ baseRadius = Undefined
    /\ topRadius = Undefined /\ numLevels = Undefined
    /\ levels = <<>> /\ rings = <<>> /\ verts = <<>>
    /\ facesBase = <<>> /\ facesTop = <<>> /\ facesSides = <<>>
    /\ norms = <<>> /\ baseNormalIdx = Undefined /\ topNormalIdx = Undefined
    /\ sideNormalIdx = <<>>
    /\ fileLines = <<>> /\ writes = <<>>
    /\ messages = <<>> /\ prev = <<>>
    /\ arrays = EmptyArrays

ShapeUnchanged ==
    UNCHANGED <<script, args, exitCode, numSides, height, baseRadius, topRadius,
                numLevels, levels, rings, verts, facesBase, facesTop, facesSides,
                norms, baseNormalIdx, topNormalIdx, sideNormalIdx, fileLines, writes,
                messages, prev>>

GenerateData ==
    /\ pc = "generate" /\ script = "generateData"
    /\ arrays' = generateData(args[1], args[2], args[3], args[4])
    /\ pc' = "done"
    /\ ShapeUnchanged

GeneratePivotData ==
    /\ pc = "generate" /\ script = "generatePivotData"
    /\ arrays' = generatePivotData(args[1])
    /\ pc' = "done"
    /\ ShapeUnchanged

GenerateMouthData ==
    /\ pc = "generate" /\ script = "generateMouthData"
    /\ arrays' = generateMouthData
    /\ pc' = "done"
    /\ ShapeUnchanged

NextShapes == GenerateData \/ GeneratePivotData \/ GenerateMouthData

SpecShapes == InitShapes /\ [][NextShapes]_vars
\* ================================================================ claims
ValidLevel(l) == JsGt(l.height, 0) /\ JsGt(l.baseRadius, 0) /\ JsGt(l.topRadius, 0)
ValidLevels(ls) == Len(ls) > 0 /\ \A k \in 1..Len(ls) : ValidLevel(ls[k])
ValidSides(n) == n \in MinSides..MaxSides
\* the multi-level script has built its rings from a valid level list
RingsBuilt ==
    /\ script = "multi" /\ pc \in {"faces", "normals", "createOBJ", "done"}
    /\ ValidLevels(levels)
\* joints whose upper and lower radius agree
FlushJoints(ls) == {k \in 1..(Len(ls) - 1) : ls[k].topRadius = ls[k + 1].baseRadius}
RECURSIVE SumHeights(_, _)
SumHeights(ls, k) == IF k = 0 THEN 0 ELSE SumHeights(ls, k - 1) + ls[k].height
\* every running elevation of buildRings is the exact sum of the heights below it
ExactElevations(ls) == \A k \in 0..Len(ls) : RingLoop(ls, k).currentY = SumHeights(ls, k)

\* C1 as stated: for a non-empty list of R valid levels buildRings returns
\* exactly 2R - F rings, F the number of flush joints; one level gives 2
\* rings and two levels with a flush joint give 3 rings.
C1_RingCount ==
    RingsBuilt =>
        /\ Len(rings) = 2 * Len(levels) - Cardinality(FlushJoints(levels))
        /\ Len(levels) = 1 => Len(rings) = 2
        /\ (Len(levels) = 2 /\ FlushJoints(levels) = {1}) => Len(rings) = 3

\* C1 amended: the count is 2R - F when every running elevation is the
\* exact sum of the heights below it; in every case it is at most 2R - F.
C1_RingCountExact ==
    RingsBuilt =>
        /\ Len(rings) <= 2 * Len(levels) - Cardinality(FlushJoints(levels))
        /\ ExactElevations(levels) =>
            /\ Len(rings) = 2 * Len(levels) - Cardinality(FlushJoints(levels))
            /\ Len(levels) = 1 => Len(rings) = 2
            /\ (Len(levels) = 2 /\ FlushJoints(levels) = {1}) => Len(rings) = 3

C1_Witness ==
    /\ RingsBuilt /\ Len(levels) = 2 /\ FlushJoints(levels) = {1} /\ Len(rings) = 3
    /\ ExactElevations(levels)
    /\ levels[1].baseRadius = levels[1].topRadius

\* C2: in the ring sequence returned by buildRings for any list of levels
\* (heights of any sign), no two rings, adjacent or not, agree in both
\* elevation and radius.
C2_NoDuplicateRing ==
    pc = "done" =>
        \A k1, k2 \in 1..Len(rings) :
            (k1 # k2) => ~ (rings[k1].y = rings[k2].y /\ rings[k1].r = rings[k2].r)

\* a candidate equal to a ring that is not the last one was rejected
C2_Witness ==
    /\ script = "rings" /\ pc = "done" /\ Len(levels) = 2
    /\ levels[1].height = 0 /\ levels[1].baseRadius # levels[1].topRadius
    /\ levels[2].baseRadius = levels[1].baseRadius
    /\ Len(rings) < 4

\* C3 as stated: every ring lies strictly above the ring before it.
C3_StrictlyIncreasing ==
    RingsBuilt => \A k \in 1..(Len(rings) - 1) : rings[k].y < rings[k + 1].y

\* C3 amended: for every valid list of levels whose running elevations are
\* exact sums, the rings are stored in non-decreasing elevation order, and a
\* ring has the elevation of the ring before it only at a step joint (the
\* upper ring of a level and the lower ring of the next, with different
\* radii); everywhere else the elevation strictly increases.
C3_RingOrder ==
    (RingsBuilt /\ ExactElevations(levels)) =>
        \A k \in 1..(Len(rings) - 1) :
            /\ rings[k].y <= rings[k + 1].y
            /\ rings[k].y = rings[k + 1].y =>
                /\ rings[k].r # rings[k + 1].r
                /\ \E j \in 1..(Len(levels) - 1) :
                    /\ SumHeights(levels, j) = rings[k].y
                    /\ levels[j].topRadius = rings[k].r
                    /\ levels[j + 1].baseRadius = rings[k + 1].r

C3_Witness ==
    /\ RingsBuilt /\ Len(levels) = 6 /\ FlushJoints(levels) = {1, 4} /\ Len(rings) = 10
    /\ rings[3].y = rings[4].y /\ rings[2].y < rings[3].y
\* the generator has accepted valid inputs
ValidMulti == script = "multi" /\ ValidSides(numSides) /\ ValidLevels(levels)
ValidSingle ==
    /\ script = "single" /\ ValidSides(numSides)
    /\ ValidLevel([height |-> height, baseRadius |-> baseRadius, topRadius |-> topRadius])
\* number of rings of the mesh
NumRings == IF script = "single" THEN 2 ELSE Len(rings)
\* the sample of ring k (0-based) at angle i * 2*pi/numSides
Sample(k, i) == [a |-> i, y |-> rings[k + 1].y, r |-> rings[k + 1].r]
\* the face lines of the written file, in order
FaceLines == SelectSeq(fileLines, LAMBDA l : l.t = "f")
Distinct3(f) == f[1] # f[2] /\ f[1] # f[3] /\ f[2] # f[3]

\* C4: for valid N and levels with ring sequence of length R, vertices()
\* returns 2 + R*N vertices: vertex 0 is (0,0,0), vertex 1 is (0, elevation of
\* the last ring, 0), and the vertex at 0-based position 2 + k*N + i is the
\* sample of ring k at angle i*2*pi/N.
C4_VertexLayout ==
    (ValidMulti /\ pc \in {"faces", "normals", "createOBJ", "done"}) =>
        LET N == numSides
            R == Len(rings)
        IN  /\ Len(verts) = 2 + R * N
            /\ verts[1] = [a |-> 0, y |-> 0, r |-> 0]
            /\ verts[2] = [a |-> 0, y |-> rings[R].y, r |-> 0]
            /\ \A k \in 0..(R - 1) : \A i \in 0..(N - 1) :
                    verts[(2 + k * N + i) + 1] = Sample(k, i)

C4_Witness ==
    /\ ValidMulti /\ pc = "faces" /\ numSides = MaxSides /\ Len(rings) = 10
    /\ Len(verts) = 362 /\ verts[2].y = 960

\* C5: every index written in a face line is in range: each vertex index of
\* facesBase, facesTop and facesSides is in 1..number of vertices, and each
\* normal index that createOBJ pairs with a face is defined and in
\* 1..number of normals.
C5_IndicesInRange ==
    /\ (ValidMulti /\ pc \in {"normals", "createOBJ", "done"}) =>
            \A fs \in {facesBase, facesTop, facesSides} :
                \A k \in 1..Len(fs) : \A c \in 1..3 : fs[k][c] \in 1..Len(verts)
    /\ (ValidMulti /\ pc = "done") =>
            /\ Len(FaceLines) = Len(facesBase) + Len(facesTop) + Len(facesSides)
            /\ \A k \in 1..Len(FaceLines) : \A c \in 1..3 :
                    /\ FaceLines[k].d[c][1] \in 1..Len(verts)
                    /\ FaceLines[k].d[c][2] # Undefined
                    /\ FaceLines[k].d[c][2] \in 1..Len(norms)

C5_Witness ==
    /\ ValidMulti /\ pc = "done" /\ Len(rings) > 2 /\ Len(FaceLines) > 0
    /\ FaceLines[Len(FaceLines)].d[3][1] = Len(verts)
    /\ FaceLines[Len(FaceLines)].d[1][2] = Len(norms)

\* C6: faces() returns N base-cap triangles, N top-cap triangles and
\* 2*N*(R-1) lateral triangles; for a single level that is 4N faces with
\* 2 + 2N vertices (N = 4: 10 vertices, 16 faces; N = 3: 8 vertices, 12 faces).
C6_FaceCounts ==
    ((ValidMulti \/ ValidSingle) /\ pc \in {"normals", "createOBJ", "done"}) =>
        LET N == numSides
            total == Len(facesBase) + Len(facesTop) + Len(facesSides)
        IN  /\ Len(facesBase) = N
            /\ Len(facesTop) = N
            /\ Len(facesSides) = 2 * N * (NumRings - 1)
            /\ (script = "single" \/ Len(levels) = 1) =>
                    /\ total = 4 * N
                    /\ Len(verts) = 2 + 2 * N
                    /\ N = 4 => (Len(verts) = 10 /\ total = 16)
                    /\ N = 3 => (Len(verts) = 8 /\ total = 12)

\* the frustum of height 2 and radii 1 and 0.5 with three sides
C6_Witness ==
    /\ ValidMulti /\ pc = "done" /\ numSides = 3
    /\ levels = <<[height |-> 200, baseRadius |-> 100, topRadius |-> 50]>>
    /\ Len(verts) = 8 /\ Len(FaceLines) = 12

\* C7: normals() returns 2 + (R-1)*N normals: normal 1 is (0,-1,0), normal 2
\* is (0,1,0), and sideNormalIdx lists 3 .. 2+(R-1)*N in order, one index per
\* lateral quad; for a single level the count is 2 + N.
C7_NormalCounts ==
    ((ValidMulti \/ ValidSingle) /\ pc \in {"createOBJ", "done"}) =>
        LET N == numSides
            Q == (NumRings - 1) * N
        IN  /\ Len(norms) = 2 + Q
            /\ norms[1].const = <<0, -1, 0>> /\ baseNormalIdx = 1
            /\ norms[2].const = <<0, 1, 0>> /\ topNormalIdx = 2
            /\ sideNormalIdx = [k \in 1..Q |-> 2 + k]
            /\ 2 * Len(sideNormalIdx) = Len(facesSides)
            /\ \A k \in 3..(2 + Q) : norms[k].const = <<>> /\ Len(norms[k].tri) = 3
            /\ (script = "single" \/ Len(levels) = 1) => Len(norms) = 2 + N

C7_Witness ==
    /\ ValidMulti /\ pc = "createOBJ" /\ numSides = 5 /\ Len(rings) = 10
    /\ Len(norms) = 47 /\ sideNormalIdx[45] = 47

\* C8: the i-th base-cap triangle is (centerBase, ring0[(i+1) mod N], ring0[i])
\* and the i-th top-cap triangle is (centerTop, ringLast[i], ringLast[(i+1) mod
\* N]), with centerBase vertex 1 and centerTop vertex 2 (1-based); the top cap
\* references no ring but the last one.
C8_CapTriangles ==
    (ValidMulti /\ pc \in {"normals", "createOBJ", "done"}) =>
        LET N == numSides
            R == Len(rings)
        IN  \A i \in 0..(N - 1) :
                LET b == facesBase[i + 1]
                    t == facesTop[i + 1]
                IN  /\ b = <<1, 3 + ((i + 1) % N), 3 + i>>
                    /\ t = <<2, 3 + (R - 1) * N + i, 3 + (R - 1) * N + ((i + 1) % N)>>
                    /\ verts[b[1]] = [a |-> 0, y |-> 0, r |-> 0]
                    /\ verts[b[2]] = Sample(0, (i + 1) % N)
                    /\ verts[b[3]] = Sample(0, i)
                    /\ verts[t[1]] = [a |-> 0, y |-> rings[R].y, r |-> 0]
                    /\ verts[t[2]] = Sample(R - 1, i)
                    /\ verts[t[3]] = Sample(R - 1, (i + 1) % N)

C8_Witness ==
    /\ ValidMulti /\ pc = "normals" /\ numSides = 4 /\ Len(rings) = 6
    /\ facesTop[4] = <<2, 26, 23>> /\ facesBase[4] = <<1, 3, 6>>

\* C9: for every adjacent ring pair (j, j+1) and every i in 0..N-1, facesSides
\* holds at positions 2*(j*N+i) and 2*(j*N+i)+1 the triangles (lowerCurrent,
\* lowerNext, upperNext) and (lowerCurrent, upperNext, upperCurrent), Next being
\* sample (i+1) mod N; the three indices of every emitted triangle are distinct.
C9_SideTriangles ==
    (ValidMulti /\ pc \in {"normals", "createOBJ", "done"}) =>
        LET N == numSides
            R == Len(rings)
        IN  /\ \A j \in 0..(R - 2) : \A i \in 0..(N - 1) :
                LET f1 == facesSides[2 * (j * N + i) + 1]
                    f2 == facesSides[(2 * (j * N + i) + 1) + 1]
                    nx == (i + 1) % N
                IN  /\ f1 = <<3 + j * N + i, 3 + j * N + nx, 3 + (j + 1) * N + nx>>
                    /\ f2 = <<3 + j * N + i, 3 + (j + 1) * N + nx, 3 + (j + 1) * N + i>>
                    /\ <<verts[f1[1]], verts[f1[2]], verts[f1[3]]>>
                            = <<Sample(j, i), Sample(j, nx), Sample(j + 1, nx)>>
                    /\ <<verts[f2[1]], verts[f2[2]], verts[f2[3]]>>
                            = <<Sample(j, i), Sample(j + 1, nx), Sample(j + 1, i)>>
            /\ \A fs \in {facesBase, facesTop, facesSides} :
                    \A k \in 1..Len(fs) : Distinct3(fs[k])

C9_Witness ==
    /\ ValidMulti /\ pc = "normals" /\ numSides = 4 /\ Len(rings) = 3
    /\ facesSides[15] = <<10, 7, 11>> /\ facesSides[16] = <<10, 11, 14>>

\* C10: for every lateral quad (band j, sample i) the normal index that
\* createOBJ writes on both triangles of the quad refers to the normal that
\* normals() computed from the three vertices of the quad's first triangle,
\* facesSides[2*(j*N+i)].
C10_QuadNormal ==
    (ValidMulti /\ pc = "done") =>
        LET N == numSides
            caps == Len(facesBase) + Len(facesTop)
        IN  \A q \in 0..((Len(rings) - 1) * N - 1) :
                LET f  == facesSides[2 * q + 1]
                    l1 == FaceLines[caps + 2 * q + 1]
                    l2 == FaceLines[caps + 2 * q + 2]
                    nIdx == l1.d[1][2]
                IN  /\ \A c \in 1..3 : l1.d[c][2] = nIdx /\ l2.d[c][2] = nIdx
                    /\ <<l1.d[1][1], l1.d[2][1], l1.d[3][1]>> = f
                    /\ <<l2.d[1][1], l2.d[2][1], l2.d[3][1]>> = facesSides[2 * q + 2]
                    /\ nIdx \in 3..Len(norms)
                    /\ norms[nIdx].tri = <<verts[f[1]], verts[f[2]], verts[f[3]]>>

C10_Witness ==
    /\ ValidMulti /\ pc = "done" /\ numSides = 4 /\ Len(rings) = 4
    /\ FaceLines[Len(FaceLines)].d[1] = <<14, 14>>
    /\ norms[14].tri[1] = verts[14] /\ norms[14].tri[3] = verts[15]
\* the accepted number of sides has exact coordinates
ExactMulti == ValidMulti /\ numSides \in ExactSides
\* cross(v2 - v1, v3 - v1) of the triangle f of vertex indices
GeoNormal(f) ==
    LET v1 == Coord(verts[f[1]], numSides)
    IN  V3cross(V3subtract(Coord(verts[f[2]], numSides), v1),
                V3subtract(Coord(verts[f[3]], numSides), v1))
\* horizontal part of n times the direction from the axis to the midpoint of p, q
RadialDot(n, p, q) ==
    LET a == Coord(p, numSides)
        b == Coord(q, numSides)
    IN  n[1] * (a[1] + b[1]) + n[3] * (a[3] + b[3])

\* C11: for a single upward-tapering level (baseRadius > topRadius > 0) the
\* lateral normal of every quad, cross(v2 - v1, v3 - v1) of (lowerCurrent,
\* lowerNext, upperNext), has a strictly positive dot product with the
\* outward radial direction of the quad.
C11_LateralNormalOutward ==
    (/\ ExactMulti /\ pc \in {"createOBJ", "done"}
     /\ Len(levels) = 1 /\ levels[1].baseRadius > levels[1].topRadius) =>
        \A i \in 0..(numSides - 1) :
            LET nrm == norms[sideNormalIdx[i + 1]]
            IN  RadialDot(NormalVector(nrm, numSides), nrm.tri[1], nrm.tri[2]) > 0

\* C12: the geometric normal cross(v2 - v1, v3 - v1) of every base-cap
\* triangle has a negative y component and that of every top-cap triangle a
\* positive y component.
C12_CapWinding ==
    (ExactMulti /\ pc \in {"normals", "createOBJ", "done"}) =>
        \A i \in 1..numSides :
            /\ GeoNormal(facesBase[i])[2] < 0
            /\ GeoNormal(facesTop[i])[2] > 0

Parsed == IF script = "single" THEN getInputsSingle(args) ELSE getInputs(args)
ParsedLevels == IF script = "multi" THEN getInputs(args).levels ELSE <<>>
\* a parsed number that is not positive
NumberLe0(x) == x # NaN /\ x <= 0
\* no stage after getInputs has run
NothingBuilt ==
    /\ rings = <<>> /\ verts = <<>>
    /\ facesBase = <<>> /\ facesTop = <<>> /\ facesSides = <<>>
    /\ norms = <<>> /\ sideNormalIdx = <<>>
    /\ fileLines = <<>> /\ writes = <<>>

\* C14: when numSides parses to an integer below 3 or above 36, or the base
\* height, base radius, top radius or any additional level's height or radius
\* is <= 0, getInputs exits with status 1 before vertices(), faces(),
\* normals() or createOBJ() is called.
C14_InvalidRejected ==
    LET in == Parsed
        ls == ParsedLevels
        n  == in.numSides
        badSides == n # NaN /\ (n < MinSides \/ n > MaxSides)
        badBase  == NumberLe0(in.height) \/ NumberLe0(in.baseRadius)
                        \/ NumberLe0(in.topRadius)
        badLevel == \E k \in 2..Len(ls) :
                        \/ NumberLe0(ls[k].height)
                        \/ NumberLe0(ls[k].baseRadius)
                        \/ NumberLe0(ls[k].topRadius)
    IN  (script \in {"multi", "single"} /\ pc # "getInputs"
            /\ (badSides \/ badBase \/ badLevel)) =>
            /\ pc = "exit" /\ exitCode = 1 /\ NothingBuilt
            /\ Len(messages) = 1 /\ messages[1].stream = "stderr"

\* an additional level with a radius of 0, everything before it valid
C14_Witness ==
    /\ script = "multi" /\ pc = "exit" /\ exitCode = 1
    /\ ValidSides(Parsed.numSides) /\ ValidLevel(ParsedLevels[1])
    /\ Len(ParsedLevels) = 2 /\ ParsedLevels[2].topRadius = 0

\* C15: for every argument vector, non-numeric and missing arguments
\* included, mesh construction starts only if numSides is an integer with
\* 3 <= numSides <= 36 and every level's height, baseRadius and topRadius is
\* a number > 0.
C15_CoreOnlyOnValidInput ==
    (script = "multi" /\ pc \in {"vertices", "faces", "normals", "createOBJ", "done"}) =>
        (ValidSides(numSides) /\ ValidLevels(levels))

\* C16: the output file is written at most once, and only after vertices(),
\* faces() and normals() have returned and every output line has been built;
\* a run that ends in a validation failure writes nothing.
C16_SingleCompleteWrite ==
    script \in {"multi", "single"} =>
        /\ Len(writes) <= 1
        /\ pc # "done" => writes = <<>>
        /\ pc = "exit" => fileLines = <<>>
        /\ writes # <<>> =>
            /\ Len(verts) >= 2 /\ Len(norms) >= 2
            /\ writes[1].lines = fileLines
            /\ Len(fileLines) = 4 + Len(verts) + Len(norms)
                                  + Len(facesBase) + Len(facesTop) + Len(facesSides)
            /\ fileLines[Len(fileLines)].t = (IF facesBase = <<>> THEN "#" ELSE "f")

C16_Witness ==
    /\ script = "multi" /\ pc = "done" /\ Len(writes) = 1
    /\ ValidMulti /\ Len(levels) >= 2
    /\ writes[1].lines[Len(fileLines)].t = "f"
C18_SingleNormalTriangle ==
    (ValidSingle /\ pc \in {"createOBJ", "done"}) =>
        \A i \in 0..(numSides - 1) :
            LET nrm == norms[sideNormalIdx[i + 1]]
                tri == facesSides[2 * i + 1]
            IN  /\ tri[1] = 3 + 2 * i
                /\ nrm.tri = <<verts[tri[1]], verts[tri[2]], verts[tri[3]]>>
                /\ \A k \in 1..3 : nrm.tri[k] \notin {verts[1], verts[2]}

\* the directed edges of a triangle
DirEdges(f) == {<<f[1], f[2]>>, <<f[2], f[3]>>, <<f[3], f[1]>>}
AllFaces == facesBase \o facesTop \o facesSides
AllDirEdges == UNION {DirEdges(AllFaces[k]) : k \in 1..Len(AllFaces)}

\* C19: in the multi-level mesh (valid N, R >= 2 rings) every directed edge
\* (a, b) occurs in exactly one triangle of facesBase, facesTop and facesSides
\* together, and its reverse (b, a) occurs in exactly one triangle as well.
C19_ClosedOriented ==
    (ValidMulti /\ pc = "normals") =>
        LET all   == AllFaces
            edges == UNION {DirEdges(all[k]) : k \in 1..Len(all)}
        IN  /\ Len(rings) >= 2
            /\ \A k \in 1..Len(all) : Cardinality(DirEdges(all[k])) = 3
            /\ Cardinality(edges) = 3 * Len(all)
            /\ \A e \in edges : <<e[2], e[1]>> \in edges

\* a mesh with a step joint and a flush joint: the edges of a middle ring
\* are shared by the band below and the band above
C19_Witness ==
    /\ ValidMulti /\ pc = "normals" /\ numSides = 5
    /\ Len(rings) >= 4
    /\ <<RingIdx(5, 1, 0), RingIdx(5, 1, 1)>> \in AllDirEdges
    /\ <<RingIdx(5, 1, 1), RingIdx(5, 1, 0)>> \in AllDirEdges
    /\ Cardinality(AllDirEdges) = 3 * (2 * 5 + 2 * 5 * (Len(rings) - 1))
\* C20 as stated: for every valid level list the ring elevations are
\* non-decreasing, the first ring is (0, levels[0].baseRadius), the last ring
\* has the maximum elevation, the sum of all heights, and the last level's
\* topRadius; the top-center vertex lies at the last ring's elevation.
C20_RingExtremes ==
    RingsBuilt =>
        LET last == rings[Len(rings)]
        IN  /\ \A k \in 1..(Len(rings) - 1) : rings[k].y <= rings[k + 1].y
            /\ rings[1] = [y |-> 0, r |-> levels[1].baseRadius]
            /\ \A k \in 1..Len(rings) : rings[k].y <= last.y
            /\ last.y = RingLoop(levels, Len(levels)).currentY
            /\ last.r = levels[Len(levels)].topRadius
            /\ verts[2] = [a |-> 0, y |-> last.y, r |-> 0]

\* C20 amended: the same, for the valid level lists whose running elevations
\* are the exact sums of the heights below them.
C20_RingExtremesExact ==
    (RingsBuilt /\ ExactElevations(levels)) =>
        LET last == rings[Len(rings)]
        IN  /\ \A k \in 1..(Len(rings) - 1) : rings[k].y <= rings[k + 1].y
            /\ rings[1] = [y |-> 0, r |-> levels[1].baseRadius]
            /\ \A k \in 1..Len(rings) : rings[k].y <= last.y
            /\ last.y = SumHeights(levels, Len(levels))
            /\ last.r = levels[Len(levels)].topRadius
            /\ verts[2] = [a |-> 0, y |-> last.y, r |-> 0]

\* three levels of different heights ending in a narrow top
C20_Witness ==
    /\ RingsBuilt /\ ExactElevations(levels) /\ pc = "done"
    /\ Len(levels) >= 3
    /\ rings[Len(rings)].y = SumHeights(levels, Len(levels))
    /\ rings[Len(rings)].r < rings[1].r
    /\ verts[2].y > levels[1].height + levels[2].height
\* buildRings with both candidates of a level compared with the most
\* recently emitted ring only
SameAsLast(rs, y, r) ==
    Len(rs) > 0 /\ JsStrictEq(rs[Len(rs)].y, y) /\ JsStrictEq(rs[Len(rs)].r, r)
RECURSIVE AdjacentLoop(_, _)
AdjacentLoop(ls, n) ==
    IF n = 0 THEN [rings |-> <<>>, currentY |-> 0]
    ELSE LET st    == AdjacentLoop(ls, n - 1)
             lower == IF SameAsLast(st.rings, st.currentY, ls[n].baseRadius) THEN st.rings
                      ELSE Append(st.rings, [y |-> st.currentY, r |-> ls[n].baseRadius])
             y2    == JsAdd(st.currentY, ls[n].height)
             upper == IF SameAsLast(lower, y2, ls[n].topRadius) THEN lower
                      ELSE Append(lower, [y |-> y2, r |-> ls[n].topRadius])
         IN  [rings |-> upper, currentY |-> y2]
\* level k of ls handled as C21 says: its upper ring is appended, and its
\* lower ring is either appended or equal to the last ring emitted before it
AdjacentOnly(ls, k) ==
    LET before == RingLoop(ls, k - 1)
        after  == RingLoop(ls, k).rings
        lower  == [y |-> before.currentY, r |-> ls[k].baseRadius]
        upper  == [y |-> RingLoop(ls, k).currentY, r |-> ls[k].topRadius]
        n0     == Len(before.rings)
    IN  /\ Len(after) \in {n0 + 1, n0 + 2}
        /\ after[Len(after)] = upper
        /\ Len(after) = n0 + 2 => after[n0 + 1] = lower
        /\ Len(after) = n0 + 1 => (n0 > 0 /\ before.rings[n0] = lower)

\* C21 as stated: for every level list with positive heights the full-set
\* de-duplication gives the ring sequence of a check against the last ring
\* only; a rejected candidate equals the last ring, and no upper ring is
\* rejected.
C21_AdjacentDuplicatesOnly ==
    RingsBuilt =>
        /\ rings = AdjacentLoop(levels, Len(levels)).rings
        /\ \A k \in 1..Len(levels) : AdjacentOnly(levels, k)

\* C21 amended: the same, for the level lists whose running elevations are
\* the exact sums of the heights below them.
C21_AdjacentDuplicatesExact ==
    (RingsBuilt /\ ExactElevations(levels)) =>
        /\ rings = AdjacentLoop(levels, Len(levels)).rings
        /\ \A k \in 1..Len(levels) : AdjacentOnly(levels, k)

\* a flush joint (lower ring rejected) after a step joint
C21_Witness ==
    /\ RingsBuilt /\ ExactElevations(levels) /\ Len(levels) >= 3
    /\ 2 \in FlushJoints(levels) /\ 1 \notin FlushJoints(levels)
    /\ Len(rings) = 2 * Len(levels) - Cardinality(FlushJoints(levels))
    /\ rings = AdjacentLoop(levels, Len(levels)).rings
\* C22: for every triple of points v1, v2, v3 with integer coordinates,
\* cross(v2 - v1, v3 - v2) of the single-level normals() equals
\* cross(v2 - v1, v3 - v1) of the multi-level normals().
C22_ConventionsAgree ==
    (script = "cross" /\ pc = "done") => norms[1] = norms[2]

\* a triangle in general position: no edge along an axis, normal with three
\* non-zero components
C22_Witness ==
    /\ script = "cross" /\ pc = "done"
    /\ \A c \in 1..3 : norms[2][c] # 0
    /\ \A c \in 1..3 : verts[1][c] # verts[2][c] /\ verts[2][c] # verts[3][c]
\* the renumbering of C23: single-level index 3 + 2i goes to 3 + i, 4 + 2i to
\* 3 + N + i, the centers 1 and 2 stay
Renumber(j, n) ==
    IF j <= 2 THEN j
    ELSE IF (j - 3) % 2 = 0 THEN 3 + (j - 3) \div 2
    ELSE 3 + n + (j - 4) \div 2
RenumberFaces(fs, n) ==
    [k \in 1..Len(fs) |-> <<Renumber(fs[k][1], n), Renumber(fs[k][2], n), Renumber(fs[k][3], n)>>]

\* C23: for every N in 3..36 the single-level mesh and the multi-level mesh
\* of one level are the same up to the renumbering: vertex positions
\* coincide, and facesBase, facesTop and facesSides are equal triangle by
\* triangle, in the same order.
C23_SingleIsOneLevel ==
    (ValidSingle /\ pc = "done") =>
        LET one   == <<[height |-> height, baseRadius |-> baseRadius, topRadius |-> topRadius]>>
            multi == vertices(numSides, one)
            mf    == faces(numSides, multi.rings)
        IN  /\ Len(verts) = Len(multi.vertices)
            /\ \A j \in 1..Len(verts) : verts[j] = multi.vertices[Renumber(j, numSides)]
            /\ RenumberFaces(facesBase, numSides) = mf.facesBase
            /\ RenumberFaces(facesTop, numSides) = mf.facesTop
            /\ RenumberFaces(facesSides, numSides) = mf.facesSides

\* the largest polygon, tapering
C23_Witness ==
    /\ ValidSingle /\ pc = "done" /\ numSides = MaxSides
    /\ baseRadius # topRadius
    /\ Len(facesSides) = 2 * MaxSides
    /\ Renumber(facesSides[2 * MaxSides][3], numSides) = 3 + 2 * MaxSides - 1
\* C24: when numLevels > 0 the multi-level getInputs lets a run continue only
\* if all 3 * numLevels level arguments are present, and every additional
\* level is built from the three arguments supplied for it.
C24_LevelArgumentsPresent ==
    (script = "multi" /\ pc \notin {"getInputs", "exit"} /\ JsGt(numLevels, 0)) =>
        /\ Len(args) >= 5 + 3 * numLevels
        /\ \A i \in 0..(numLevels - 1) :
            /\ Truthy(ArgAt(args, 5 + 3 * i)) /\ Truthy(ArgAt(args, 6 + 3 * i))
            /\ Truthy(ArgAt(args, 7 + 3 * i))
            /\ levels[i + 2] = [height     |-> parseFloat(ArgAt(args, 5 + 3 * i)),
                                baseRadius |-> parseFloat(ArgAt(args, 6 + 3 * i)),
                                topRadius  |-> parseFloat(ArgAt(args, 7 + 3 * i))]
\* triangle t (0-based) of an indices array
Triangle(ix, t) == <<ix.data[3 * t + 1], ix.data[3 * t + 2], ix.data[3 * t + 3]>>
NumPositions == Len(arrays.a_position.data) \div 2
NumColors == Len(arrays.a_color.data) \div 4
NumTriangles == Len(arrays.indices.data) \div 3

\* C25: for every sides >= 3 generateData returns sides + 1 positions (the
\* center first), sides + 1 colors and exactly sides triangles, triangle s
\* being (0, s+1, s+2) for s < sides-1 and (0, sides, 1) for the last; every
\* index is in [0, sides], and every rim edge (s+1, next) is used by exactly
\* one triangle.
C25_PolygonFan ==
    (script = "generateData" /\ pc = "done" /\ args[1] >= 3) =>
        LET sides == args[1]
            ix    == arrays.indices
            next(v) == IF v = sides THEN 1 ELSE v + 1
        IN  /\ Len(arrays.a_position.data) = 2 * (sides + 1)
            /\ arrays.a_position.data[1] = Plain(args[3])
            /\ arrays.a_position.data[2] = Plain(args[4])
            /\ Len(arrays.a_color.data) = 4 * (sides + 1)
            /\ Len(ix.data) = 3 * sides
            /\ \A t \in 0..(sides - 2) : Triangle(ix, t) = <<0, t + 1, t + 2>>
            /\ Triangle(ix, sides - 1) = <<0, sides, 1>>
            /\ \A k \in 1..Len(ix.data) : ix.data[k] \in 0..sides
            /\ \A v \in 1..sides :
                Cardinality({t \in 0..(sides - 1) :
                                \E c \in 1..3 :
                                    /\ Triangle(ix, t)[c] = v
                                    /\ Triangle(ix, t)[(c % 3) + 1] = next(v)}) = 1

\* the 30-sided face polygon
C25_Witness ==
    /\ script = "generateData" /\ pc = "done" /\ args[1] = 30
    /\ NumTriangles = 30 /\ NumPositions = 31
    /\ Triangle(arrays.indices, 29) = <<0, 30, 1>>

\* C26: in every attribute-array object handed to the renderer (from
\* generateData, generatePivotData and generateMouthData) the number of
\* colors (a_color length / 4) equals the number of positions (a_position
\* length / 2), and every entry of indices is smaller than the number of
\* positions.
C26_ArraysConsistent ==
    (script \in {"generateData", "generatePivotData", "generateMouthData"} /\ pc = "done") =>
        /\ Len(arrays.a_color.data) = 4 * NumColors
        /\ Len(arrays.a_position.data) = 2 * NumPositions
        /\ NumColors = NumPositions
        /\ \A k \in 1..Len(arrays.indices.data) :
            arrays.indices.data[k] >= 0 /\ arrays.indices.data[k] < NumPositions
====
